---- MODULE Spec2Model ----
(***************************************************************************)
(* Work-item / branch lifecycle of calcifer-app: WorkModule (the           *)
(* orchestrator), GitModule (the version-control gateway), the changelog   *)
(* writer and the endpoint-creation flow, over one working copy and one    *)
(* database.                                                               *)
(*                                                                         *)
(* The repository is a commit DAG.  A commit hash is the commit's index in *)
(* repo.commits (every commit the gateway creates is a new object).  Of    *)
(* the tracked files only docs/CHANGES.md is followed: a tree, the index   *)
(* and the working tree are each the set of changelog entries the file     *)
(* holds.  The database is reliable: a db.commit() never fails.            *)
(*                                                                         *)
(* The text of docs/CHANGES.md is followed on its own, in changes_md, for  *)
(* the changelog writer (SpecChangelog): the file's characters and the     *)
(* entries appended to it.  The other specifications leave it alone.       *)
(*                                                                         *)
(* An operation is one step, except in SpecConcurrent, where two callers   *)
(* run commit_work one gateway step at a time (inflight holds where each   *)
(* of them is).                                                            *)
(***************************************************************************)
EXTENDS Integers, Sequences, FiniteSets, TLC

VARIABLES repo, items, records, nextId, clock, hist, failures, ret, changes_md,
          inflight

vars == <<repo, items, records, nextId, clock, hist, failures, ret, changes_md,
          inflight>>

\* ---------------------------------------------------------------- bounds
MaxItems == 2      \* work items ever created
MaxCommits == 2    \* commits created on top of the initial commit
MaxEntries == 2    \* changelog entries ever written to the working tree
MaxFailures == 1   \* operations in which a gateway step is made to fail
MaxEndpoints == 1  \* work items created by the endpoint flow
MaxClock == 2      \* completions (the clock ticks at each one)
MaxAppends == 3    \* entries appended to the changelog file on its own

\* ------------------------------------------------------------- constants
NULL == "NULL"
Trunk == "main"
Today == "20251123"
SlugLimit == 30
NotesLimit == 2000

\* ------------------------------------------------------- small utilities
RECURSIVE SeqToSet(_)
SeqToSet(s) == IF s = <<>> THEN {} ELSE {Head(s)} \cup SeqToSet(Tail(s))

RECURSIVE JoinWith(_, _)
\* str.join: sep.join(list)
JoinWith(sep, l) ==
    IF l = <<>> THEN ""
    ELSE IF Len(l) = 1 THEN l[1]
    ELSE l[1] \o sep \o JoinWith(sep, Tail(l))

\* Removing a key from a function
DropKey(f, k) == [x \in (DOMAIN f) \ {k} |-> f[x]]

\* ================================================================ GitModule
\* The initial repository: one commit on main, HEAD on main, a clean tree.
InitRepo ==
    [ commits |-> << [parents |-> {}, tree |-> {}, owner |-> 0] >>,
      heads   |-> (Trunk :> 1),
      cur     |-> Trunk,
      index   |-> {},
      wt      |-> {},
      nentry  |-> 0 ]

RECURSIVE Reach(_, _)
\* The commits reachable from commit c (c and its ancestors).
Reach(r, c) == {c} \cup UNION { Reach(r, p) : p \in r.commits[c].parents }

HeadCommit(r) == r.heads[r.cur]
TreeOf(r, b) == r.commits[r.heads[b]].tree
Clean(r) == r.index = TreeOf(r, r.cur) /\ r.wt = TreeOf(r, r.cur)

\* repo.iter_commits('target..branch'); an unknown ref is a GitCommandError.
RevRange(r, target, branch) ==
    Reach(r, r.heads[branch]) \ Reach(r, r.heads[target])

\* GitModule.checkout_branch: git checkout refuses an unknown branch, and
\* refuses to overwrite local changes of a file that differs between the two
\* heads; otherwise local changes are carried along.
checkout_branch(r, name, inject) ==
    LET ok == /\ ~inject
              /\ name \in DOMAIN r.heads
              /\ (Clean(r) \/ TreeOf(r, name) = TreeOf(r, r.cur))
    IN  [ ok   |-> ok,
          repo |-> IF ~ok THEN r
                   ELSE IF Clean(r)
                        THEN [r EXCEPT !.cur = name,
                                       !.index = TreeOf(r, name),
                                       !.wt = TreeOf(r, name)]
                        ELSE [r EXCEPT !.cur = name] ]

\* GitModule.create_branch(name, checkout=True): repo.create_head(name)
\* starts the new head at the commit that is checked out.  For a name that
\* is taken it does nothing when that head is at the same commit, and raises
\* OSError otherwise, which create_branch does not catch (raised).  f is the
\* step that fails with a GitCommandError, if any.
create_branch(r, name, f) ==
    IF f = "create_head"
    THEN [ok |-> FALSE, raised |-> FALSE, repo |-> r]
    ELSE IF name \in DOMAIN r.heads /\ r.heads[name] # HeadCommit(r)
    THEN [ok |-> FALSE, raised |-> TRUE, repo |-> r]
    ELSE LET made == [r EXCEPT !.heads = (name :> HeadCommit(r)) @@ r.heads]
         IN  IF f = "checkout"
             THEN [ok |-> FALSE, raised |-> FALSE, repo |-> made]
             ELSE [ok |-> TRUE, raised |-> FALSE,
                   repo |-> [made EXCEPT !.cur = name]]

\* GitModule.is_branch_merged: zero commits unique to the branch.
is_branch_merged(r, name) ==
    IF name \notin DOMAIN r.heads \/ Trunk \notin DOMAIN r.heads THEN FALSE
    ELSE RevRange(r, Trunk, name) = {}

\* GitModule.get_branch_commits: the commits of main..branch ([] on error).
get_branch_commits(r, name) ==
    IF name \notin DOMAIN r.heads \/ Trunk \notin DOMAIN r.heads THEN {}
    ELSE RevRange(r, Trunk, name)

\* GitModule.check_changes_md_updated: git diff main --name-only compares the
\* working tree with main's tree.
check_changes_md_updated(r) ==
    IF Trunk \notin DOMAIN r.heads THEN FALSE
    ELSE r.wt # TreeOf(r, Trunk)

\* GitModule.commit: commits the index on top of HEAD; sha 0 is None.
\* owner is bookkeeping: the work item the commit was made for.
commit(r, owner, inject) ==
    IF inject THEN [sha |-> 0, repo |-> r]
    ELSE LET sha == Len(r.commits) + 1
             c == [parents |-> {HeadCommit(r)}, tree |-> r.index, owner |-> owner]
         IN  [ sha  |-> sha,
               repo |-> [r EXCEPT !.commits = Append(@, c),
                                  !.heads[r.cur] = sha] ]

\* git merge <name> on the branch that is checked out.
GitMerge(r, name, inject) ==
    IF inject \/ name \notin DOMAIN r.heads THEN [ok |-> FALSE, repo |-> r]
    ELSE LET h == HeadCommit(r)
             t == r.heads[name]
         IN  IF t \in Reach(r, h)
             THEN [ok |-> TRUE, repo |-> r]                 \* already up to date
             ELSE IF ~Clean(r)
             THEN [ok |-> FALSE, repo |-> r]                \* local changes
             ELSE IF h \in Reach(r, t)
             THEN [ ok |-> TRUE,                            \* fast-forward
                    repo |-> [r EXCEPT !.heads[r.cur] = t,
                                       !.index = r.commits[t].tree,
                                       !.wt = r.commits[t].tree] ]
             ELSE LET tree == r.commits[h].tree \cup r.commits[t].tree
                      m == [parents |-> {h, t}, tree |-> tree, owner |-> 0]
                      sha == Len(r.commits) + 1
                  IN  [ ok |-> TRUE,                        \* merge commit
                        repo |-> [r EXCEPT !.commits = Append(@, m),
                                           !.heads[r.cur] = sha,
                                           !.index = tree,
                                           !.wt = tree] ]

\* str(e) of the GitCommandError a failed git command raises
GitError == "GitCommandError"

\* A merge_branch that reports success whatever git merge did
merge_branch_always_ok(r, name, f) ==
    LET co == checkout_branch(r, Trunk, f = "checkout")
        mg == GitMerge(co.repo, name, f = "merge")
    IN  [ ok         |-> TRUE,
          sha        |-> HeadCommit(mg.repo),
          msg        |-> "",
          repo       |-> mg.repo,
          checkoutOk |-> co.ok ]

\* GitModule.merge_branch: checkout main (result ignored), merge, HEAD's sha;
\* msg is the error text handed back in place of the sha on failure.
merge_branch(r, name, f) ==
    LET co == checkout_branch(r, Trunk, f = "checkout")
        mg == GitMerge(co.repo, name, f = "merge")
    IN  [ ok         |-> mg.ok,
          sha        |-> IF mg.ok THEN HeadCommit(mg.repo) ELSE 0,
          msg        |-> IF mg.ok THEN "" ELSE GitError,
          repo       |-> mg.repo,
          checkoutOk |-> co.ok ]

\* A delete_head that reports success and leaves the branch in place
delete_head_keeps(r, name, inject) ==
    [ok |-> ~inject /\ name \in DOMAIN r.heads /\ name # r.cur, repo |-> r]

\* repo.delete_head(name, force=True): git branch -D refuses an unknown
\* branch and the branch that is checked out.
delete_head(r, name, inject) ==
    LET ok == ~inject /\ name \in DOMAIN r.heads /\ name # r.cur
    IN  [ok |-> ok, repo |-> IF ok THEN [r EXCEPT !.heads = DropKey(@, name)] ELSE r]

\* repo.git.add('-A') / GitModule.stage_files: the index takes the working tree.
stage(r, inject) ==
    [ok |-> ~inject, repo |-> IF inject THEN r ELSE [r EXCEPT !.index = r.wt]]

\* DocumentationModule.append_to_changes_md: one more entry in the file.
append_to_changes_md(r) ==
    [r EXCEPT !.nentry = @ + 1, !.wt = @ \cup {r.nentry + 1}]


\* ------------------------------------------- the text of docs/CHANGES.md
\* What ensure_changes_md_exists writes to a file that is missing
HeaderText ==
    << "#", " ", "C", "h", "a", "n", "g", "e", " ", "L", "o", "g", "\n",
       "\n", "A", "l", "l", " ", "i", "n", "f", "r", "a", "s", "t", "r",
       "u", "c", "t", "u", "r", "e", " ", "c", "h", "a", "n", "g", "e",
       "s", " ", "a", "r", "e", " ", "l", "o", "g", "g", "e", "d", " ",
       "h", "e", "r", "e", ".", "\n", "\n" >>

\* strftime('%Y-%m-%d') of the day of the call
TodayDashed == << "2","0","2","5","-","1","1","-","2","3" >>

RECURSIVE Concat(_)
\* f.writelines: the strings one after the other
Concat(lines) == IF lines = <<>> THEN <<>> ELSE Head(lines) \o Concat(Tail(lines))

RECURSIVE readlines(_)
\* f.readlines: the text cut after every newline
readlines(text) ==
    IF text = <<>> THEN <<>>
    ELSE LET ends == { i \in 1..Len(text) : text[i] = "\n" }
             n == IF ends = {} THEN Len(text)
                  ELSE CHOOSE i \in ends : \A j \in ends : i <= j
         IN  << SubSeq(text, 1, n) >> \o readlines(SubSeq(text, n + 1, Len(text)))

\* str.startswith
startswith(line, prefix) ==
    Len(line) >= Len(prefix) /\ SubSeq(line, 1, Len(prefix)) = prefix

\* list.insert(index, x), index counted from 0
insert(l, index, x) ==
    SubSeq(l, 1, index) \o <<x>> \o SubSeq(l, index + 1, Len(l))

\* DocumentationModule.ensure_changes_md_exists
ensure_changes_md_exists(file) ==
    IF file.exists THEN file ELSE [exists |-> TRUE, text |-> HeaderText]

\* The text of a new entry
new_entry(entry, author, work_type) ==
    <<"#","#"," ">> \o TodayDashed \o <<" ","-"," ">> \o author
        \o <<" ","-"," ">> \o work_type \o <<"\n","-"," ">> \o entry \o <<"\n">>

\* An append that puts the new entry at the end of the file
append_lines_at_end(file, entry, author, work_type) ==
    LET lines == readlines(ensure_changes_md_exists(file).text)
        l1 == insert(lines, Len(lines), <<"\n">>)
        l2 == insert(l1, Len(lines) + 1, new_entry(entry, author, work_type))
    IN  [exists |-> TRUE, text |-> Concat(l2)]

\* DocumentationModule.append_to_changes_md, on the file's text: the new
\* entry goes before the first line after line 0 that starts with '## ',
\* or at the end when there is none.
append_lines(file, entry, author, work_type) ==
    LET lines == readlines(ensure_changes_md_exists(file).text)
        found == { i \in 1..(Len(lines) - 1) :
                     startswith(lines[i + 1], <<"#","#"," ">>) }
        insert_index == IF found = {} THEN Len(lines)
                        ELSE CHOOSE i \in found : \A j \in found : i <= j
        l1 == insert(lines, insert_index, <<"\n">>)
        l2 == insert(l1, insert_index + 1, new_entry(entry, author, work_type))
    IN  [exists |-> TRUE, text |-> Concat(l2)]

\* GitModule.generate_branch_name: a title is a sequence of characters.
UpperChars == << "A","B","C","D","E","F","G","H","I","J","K","L","M",
                 "N","O","P","Q","R","S","T","U","V","W","X","Y","Z" >>
LowerChars == << "a","b","c","d","e","f","g","h","i","j","k","l","m",
                 "n","o","p","q","r","s","t","u","v","w","x","y","z" >>
DigitChars == {"0","1","2","3","4","5","6","7","8","9"}

\* str.lower on one character
lower(c) ==
    IF \E i \in 1..Len(UpperChars) : UpperChars[i] = c
    THEN LowerChars[CHOOSE i \in 1..Len(UpperChars) : UpperChars[i] = c]
    ELSE c

\* str.isalnum on one character
isalnum(c) == c \in SeqToSet(UpperChars) \cup SeqToSet(LowerChars) \cup DigitChars

IsSlugChar(c) == isalnum(c) \/ c = "-"

\* A sanitize that cuts the title to the limit before it drops characters
sanitize_cut_first(title) ==
    LET lowered  == [i \in 1..Len(title) |-> lower(title[i])]
        replaced == [i \in 1..Len(title) |-> IF lowered[i] = " " THEN "-" ELSE lowered[i]]
        cut      == SubSeq(replaced, 1,
                           IF Len(replaced) < SlugLimit THEN Len(replaced) ELSE SlugLimit)
    IN  SelectSeq(cut, IsSlugChar)

sanitize(title) ==
    LET lowered  == [i \in 1..Len(title) |-> lower(title[i])]
        replaced == [i \in 1..Len(title) |-> IF lowered[i] = " " THEN "-" ELSE lowered[i]]
        kept     == SelectSeq(replaced, IsSlugChar)
    IN  SubSeq(kept, 1, IF Len(kept) < SlugLimit THEN Len(kept) ELSE SlugLimit)

generate_branch_name(category, action_type, title) ==
    category \o "/" \o action_type \o "/" \o JoinWith("", sanitize(title))
             \o "-" \o Today

\* ============================================================== WorkModule
\* A checklist from its item descriptions, nothing done.
NewChecklist(d) == [i \in 1..Len(d) |-> [item |-> d[i], done |-> FALSE]]

TemplateKeys ==
    { <<"platform_feature", "new">>, <<"platform_feature", "change">>,
      <<"platform_feature", "fix">>, <<"integration", "new">>,
      <<"integration", "change">>, <<"integration", "fix">>,
      <<"service", "new">>, <<"service", "change">>, <<"service", "fix">>,
      <<"documentation", "new">>, <<"documentation", "change">> }

\* The checklists table of WorkModule._generate_checklist.
Template(category, action_type) ==
    CASE <<category, action_type>> = <<"platform_feature", "new">> ->
           << "Define feature requirements and scope",
              "Design database schema changes (if any)",
              "Implement backend logic",
              "Create/update UI templates",
              "Test feature thoroughly",
              "Document feature in work notes",
              "Update user-facing documentation" >>
      [] <<category, action_type>> = <<"platform_feature", "change">> ->
           << "Document current behavior",
              "Implement changes",
              "Test changes thoroughly",
              "Update related documentation",
              "Verify no regressions" >>
      [] <<category, action_type>> = <<"platform_feature", "fix">> ->
           << "Reproduce the issue",
              "Identify root cause",
              "Implement fix",
              "Test fix thoroughly",
              "Verify issue is resolved",
              "Document fix for future reference" >>
      [] <<category, action_type>> = <<"integration", "new">> ->
           << "Research integration API/requirements",
              "Create integration module structure",
              "Implement core integration logic",
              "Add configuration options",
              "Test integration end-to-end",
              "Document integration setup",
              "Add to integrations documentation" >>
      [] <<category, action_type>> = <<"integration", "change">> ->
           << "Document current integration behavior",
              "Implement changes",
              "Test integration functionality",
              "Update integration documentation" >>
      [] <<category, action_type>> = <<"integration", "fix">> ->
           << "Reproduce integration issue",
              "Identify root cause",
              "Implement fix",
              "Test integration thoroughly",
              "Document fix" >>
      [] <<category, action_type>> = <<"service", "new">> ->
           << "Define service purpose and requirements",
              "Check resource availability (RAM/CPU/disk)",
              "Create docker-compose.yml or config files",
              "Test service locally",
              "Deploy to target VM/host",
              "Configure monitoring/health checks",
              "Add to service catalog in Calcifer",
              "Document service configuration" >>
      [] <<category, action_type>> = <<"service", "change">> ->
           << "Document current service configuration",
              "Backup existing configuration",
              "Make configuration changes",
              "Test changes",
              "Update service catalog entry",
              "Update service documentation" >>
      [] <<category, action_type>> = <<"service", "fix">> ->
           << "Identify service issue",
              "Check logs and diagnostics",
              "Implement fix",
              "Restart/redeploy service",
              "Verify service is healthy",
              "Document fix for future reference" >>
      [] <<category, action_type>> = <<"documentation", "new">> ->
           << "Define documentation scope and audience",
              "Create document structure/outline",
              "Write documentation content",
              "Add examples and code snippets",
              "Review for clarity and accuracy",
              "Add to docs/ directory" >>
      [] <<category, action_type>> = <<"documentation", "change">> ->
           << "Identify sections to update",
              "Make documentation changes",
              "Update examples if needed",
              "Review for accuracy" >>

\* WorkModule._generate_checklist: the template, or the generic two items.
generate_checklist(category, action_type) ==
    IF <<category, action_type>> \in TemplateKeys
    THEN NewChecklist(Template(category, action_type))
    ELSE NewChecklist(<< "Complete the work", "Document changes" >>)

\* The items of a checklist that are not done.
incomplete_items(checklist) ==
    { i \in 1..Len(checklist) : ~checklist[i].done }

\* A validation that stops at the first check that fails
validate_for_completion_short_circuit(work_item, r) ==
    IF incomplete_items(work_item.checklist) # {}
    THEN [ok |-> FALSE,
          errors |-> << ToString(Cardinality(incomplete_items(work_item.checklist)))
                        \o " checklist item(s) not completed" >>]
    ELSE IF work_item.git_branch = NULL
    THEN [ok |-> FALSE,
          errors |-> << "No Git branch associated with this work item" >>]
    ELSE IF get_branch_commits(r, work_item.git_branch) = {}
    THEN [ok |-> FALSE, errors |-> << "Branch has no commits" >>]
    ELSE IF ~check_changes_md_updated(r)
    THEN [ok |-> FALSE, errors |-> << "docs/CHANGES.md not updated in this branch" >>]
    ELSE [ok |-> TRUE, errors |-> <<>>]

\* WorkModule.validate_for_completion: the four checks, errors accumulated.
validate_for_completion(work_item, r) ==
    LET e1 == IF incomplete_items(work_item.checklist) # {}
              THEN << ToString(Cardinality(incomplete_items(work_item.checklist)))
                      \o " checklist item(s) not completed" >>
              ELSE <<>>
        e2 == IF work_item.git_branch = NULL
              THEN << "No Git branch associated with this work item" >>
              ELSE <<>>
        e3 == IF work_item.git_branch # NULL
                 /\ get_branch_commits(r, work_item.git_branch) = {}
              THEN << "Branch has no commits" >>
              ELSE <<>>
        e4 == IF work_item.git_branch # NULL /\ ~check_changes_md_updated(r)
              THEN << "docs/CHANGES.md not updated in this branch" >>
              ELSE <<>>
        errors == e1 \o e2 \o e3 \o e4
    IN  [ok |-> Len(errors) = 0, errors |-> errors]

\* A validation phase that reports only the first error it found
merge_validation_first_error(work_item, r) ==
    LET errors == validate_for_completion(work_item, r).errors
    IN  IF errors = <<>> THEN <<>> ELSE << errors[1] >>

\* The validation phase of WorkModule.merge_and_complete (the same four checks).
merge_validation(work_item, r) ==
    LET e1 == IF incomplete_items(work_item.checklist) # {}
              THEN << ToString(Cardinality(incomplete_items(work_item.checklist)))
                      \o " checklist item(s) not completed" >>
              ELSE <<>>
        e2 == IF work_item.git_branch = NULL
              THEN << "No Git branch associated with this work item" >>
              ELSE <<>>
        e3 == IF work_item.git_branch # NULL
                 /\ get_branch_commits(r, work_item.git_branch) = {}
              THEN << "Branch has no commits" >>
              ELSE <<>>
        e4 == IF work_item.git_branch # NULL /\ ~check_changes_md_updated(r)
              THEN << "docs/CHANGES.md not updated in this branch" >>
              ELSE <<>>
    IN  e1 \o e2 \o e3 \o e4


\* ------------------------------------------------------------ operations
\* What an operation hands back: its return value (ok, msg), the gateway
\* methods it invoked (calls), the gateway steps that failed (fails) and the
\* hash it recorded (sha, 0 for none).
Result(op, w, ok, msg, calls, fails, sha) ==
    [op |-> op, w |-> w, ok |-> ok, msg |-> msg, calls |-> calls,
     fails |-> fails, sha |-> sha]

\* The state an operation leaves (repository, work_items table, commits
\* table) with what it returns.
Outcome(r, its, recs, result) ==
    [repo |-> r, items |-> its, records |-> recs, ret |-> result]

Whitespace == {" ", "\t", "\n"}

RECURSIVE lstrip(_)
lstrip(s) == IF s # <<>> /\ Head(s) \in Whitespace THEN lstrip(Tail(s)) ELSE s

RECURSIVE rstrip(_)
rstrip(s) ==
    IF s # <<>> /\ s[Len(s)] \in Whitespace THEN rstrip(SubSeq(s, 1, Len(s) - 1)) ELSE s

\* A strip that leaves the text as it is
strip_nothing(s) == s

\* str.strip
strip(s) == rstrip(lstrip(s))

\* The notes column holding None; it never holds the empty text, which
\* update_notes stores as None.
NoNotes == <<>>

\* The row of a new work item
NewItem(title, category, action_type, branch_name) ==
    [ title |-> title,
      category |-> category,
      action_type |-> action_type,
      status |-> "planning",
      git_branch |-> branch_name,
      checklist |-> generate_checklist(category, action_type),
      notes |-> NoNotes,
      branch_merged |-> FALSE,
      merge_commit_sha |-> 0,
      completed_date |-> 0 ]

\* WorkModule.create_work_item; id is the primary key the row gets.  An
\* exception that escapes create_branch ends the call before the row is added.
create_work_item(r, its, recs, id, title, category, action_type, f) ==
    LET branch_name == generate_branch_name(category, action_type, title)
        cb == create_branch(r, branch_name, f)
    IN  IF cb.raised
        THEN Outcome(r, its, recs,
                     Result("create_work_item", id, FALSE, "OSError",
                            {"create_branch"}, {"create_branch"}, 0))
        ELSE Outcome(cb.repo,
                     (id :> NewItem(title, category, action_type, branch_name)) @@ its,
                     recs,
                     Result("create_work_item", id, TRUE, "", {"create_branch"},
                            IF cb.ok THEN {} ELSE {"create_branch"}, 0))

\* Python list indexing of a list of length n: the position (1-based) that
\* index addresses, 0 when it raises IndexError.
ListPosition(n, index) ==
    IF index >= 0 /\ index < n THEN index + 1
    ELSE IF index < 0 /\ index >= 0 - n THEN n + index + 1
    ELSE 0

\* A toggle that marks the item done instead of flipping it
toggle_checklist_item_marks_done(r, its, recs, w, index) ==
    IF w \notin DOMAIN its \/ index >= Len(its[w].checklist)
    THEN Outcome(r, its, recs,
                 Result("toggle_checklist_item", w, FALSE, "", {}, {}, 0))
    ELSE LET pos == ListPosition(Len(its[w].checklist), index)
         IN  IF pos = 0
             THEN Outcome(r, its, recs,
                          Result("toggle_checklist_item", w, FALSE, "IndexError",
                                 {}, {}, 0))
             ELSE Outcome(r, [its EXCEPT ![w].checklist[pos].done = TRUE], recs,
                          Result("toggle_checklist_item", w, TRUE, "", {}, {}, 0))

\* A toggle on a checklist that the work items of one template share: the
\* flag flips in every work item of the same category and action type
toggle_checklist_item_shared(r, its, recs, w, index) ==
    IF w \notin DOMAIN its \/ index >= Len(its[w].checklist)
    THEN Outcome(r, its, recs,
                 Result("toggle_checklist_item", w, FALSE, "", {}, {}, 0))
    ELSE LET pos == ListPosition(Len(its[w].checklist), index)
             same(v) == /\ its[v].category = its[w].category
                        /\ its[v].action_type = its[w].action_type
         IN  IF pos = 0
             THEN Outcome(r, its, recs,
                          Result("toggle_checklist_item", w, FALSE, "IndexError",
                                 {}, {}, 0))
             ELSE Outcome(r,
                          [v \in DOMAIN its |->
                             IF same(v)
                             THEN [its[v] EXCEPT !.checklist[pos].done = ~@]
                             ELSE its[v]],
                          recs,
                          Result("toggle_checklist_item", w, TRUE, "", {}, {}, 0))

\* WorkModule.toggle_checklist_item
toggle_checklist_item(r, its, recs, w, index) ==
    IF w \notin DOMAIN its \/ index >= Len(its[w].checklist)
    THEN Outcome(r, its, recs,
                 Result("toggle_checklist_item", w, FALSE, "", {}, {}, 0))
    ELSE LET pos == ListPosition(Len(its[w].checklist), index)
         IN  IF pos = 0
             THEN Outcome(r, its, recs,
                          Result("toggle_checklist_item", w, FALSE, "IndexError",
                                 {}, {}, 0))
             ELSE Outcome(r, [its EXCEPT ![w].checklist[pos].done = ~@], recs,
                          Result("toggle_checklist_item", w, TRUE, "", {}, {}, 0))

\* The Commit row written for a work item
CommitRecord(w, sha, message) ==
    [work_item_id |-> w, commit_sha |-> sha, commit_message |-> message]

\* A commit_work that records the commit without looking at what the
\* gateway's commit returned
commit_work_unchecked(r, its, recs, w, commit_message, changes_entry, f) ==
    IF w \notin DOMAIN its
    THEN Outcome(r, its, recs,
                 Result("commit_work", w, FALSE, "Work item not found", {}, {}, 0))
    ELSE IF strip(commit_message) = <<>>
    THEN Outcome(r, its, recs,
                 Result("commit_work", w, FALSE, "Commit message is required", {}, {}, 0))
    ELSE IF strip(changes_entry) = <<>>
    THEN Outcome(r, its, recs,
                 Result("commit_work", w, FALSE, "CHANGES.md entry is required", {}, {}, 0))
    ELSE
    LET co == IF its[w].git_branch # NULL
              THEN checkout_branch(r, its[w].git_branch, f = "checkout")
              ELSE [ok |-> TRUE, repo |-> r]
        r1 == append_to_changes_md(co.repo)
        st == stage(r1, f = "add")
        cm == commit(st.repo, w, f = "commit")
        coFail == IF co.ok THEN {} ELSE {"checkout_branch"}
    IN  IF ~st.ok
        THEN Outcome(r1, its, recs,
                     Result("commit_work", w, FALSE, "Error: git add",
                            {"checkout_branch", "add"}, coFail \cup {"add"}, 0))
        ELSE Outcome(cm.repo, its,
                     Append(recs, CommitRecord(w, cm.sha, commit_message)),
                     Result("commit_work", w, TRUE, "Changes committed successfully!",
                            {"checkout_branch", "add", "commit"}, coFail, cm.sha))

\* WorkModule.commit_work
commit_work(r, its, recs, w, commit_message, changes_entry, f) ==
    IF w \notin DOMAIN its
    THEN Outcome(r, its, recs,
                 Result("commit_work", w, FALSE, "Work item not found", {}, {}, 0))
    ELSE IF strip(commit_message) = <<>>
    THEN Outcome(r, its, recs,
                 Result("commit_work", w, FALSE, "Commit message is required", {}, {}, 0))
    ELSE IF strip(changes_entry) = <<>>
    THEN Outcome(r, its, recs,
                 Result("commit_work", w, FALSE, "CHANGES.md entry is required", {}, {}, 0))
    ELSE
    LET co == IF its[w].git_branch # NULL
              THEN checkout_branch(r, its[w].git_branch, f = "checkout")
              ELSE [ok |-> TRUE, repo |-> r]
        r1 == append_to_changes_md(co.repo)
        st == stage(r1, f = "add")
        cm == commit(st.repo, w, f = "commit")
        coFail == IF co.ok THEN {} ELSE {"checkout_branch"}
    IN  IF ~st.ok
        THEN Outcome(r1, its, recs,
                     Result("commit_work", w, FALSE, "Error: git add",
                            {"checkout_branch", "add"}, coFail \cup {"add"}, 0))
        ELSE IF cm.sha = 0
        THEN Outcome(st.repo, its, recs,
                     Result("commit_work", w, FALSE,
                            "Commit failed - no changes to commit or git error",
                            {"checkout_branch", "add", "commit"},
                            coFail \cup {"commit"}, 0))
        ELSE Outcome(cm.repo, its,
                     Append(recs, CommitRecord(w, cm.sha, commit_message)),
                     Result("commit_work", w, TRUE, "Changes committed successfully!",
                            {"checkout_branch", "add", "commit"}, coFail, cm.sha))

\* The completion phase of WorkModule.merge_and_complete
Completed(work_item, now) ==
    [work_item EXCEPT !.status = "complete", !.completed_date = now]

\* WorkModule.merge_and_complete; now is the time of the call.
merge_and_complete(r, its, recs, w, now, f) ==
    IF w \notin DOMAIN its
    THEN Outcome(r, its, recs,
                 Result("merge_and_complete", w, FALSE, "Work item not found", {}, {}, 0))
    ELSE
    LET work_item == its[w]
        errors == merge_validation(work_item, r)
        mb == merge_branch(r, work_item.git_branch, f)
        coFail == IF mb.checkoutOk THEN {} ELSE {"checkout_branch"}
    IN  IF errors # <<>>
        THEN Outcome(r, its, recs,
                     Result("merge_and_complete", w, FALSE,
                            JoinWith(" | ", errors), {}, {}, 0))
        ELSE IF is_branch_merged(r, work_item.git_branch)
        THEN Outcome(r,
                     [its EXCEPT ![w] =
                        Completed([work_item EXCEPT !.branch_merged = TRUE], now)],
                     recs,
                     Result("merge_and_complete", w, TRUE,
                            "Work item completed and merged successfully!", {}, {}, 0))
        ELSE IF ~mb.ok
        THEN Outcome(mb.repo, its, recs,
                     Result("merge_and_complete", w, FALSE,
                            "Merge failed: " \o mb.msg,
                            {"merge_branch", "checkout_branch"},
                            coFail \cup {"merge_branch"}, 0))
        ELSE Outcome(mb.repo,
                     [its EXCEPT ![w] =
                        Completed([work_item EXCEPT !.branch_merged = TRUE,
                                                    !.merge_commit_sha = mb.sha], now)],
                     recs,
                     Result("merge_and_complete", w, TRUE,
                            "Work item completed and merged successfully!",
                            {"merge_branch", "checkout_branch"}, coFail, mb.sha))

\* WorkModule.update_notes: notes[:2000] if notes else None
update_notes(r, its, recs, w, notes) ==
    IF w \notin DOMAIN its
    THEN Outcome(r, its, recs, Result("update_notes", w, FALSE, "", {}, {}, 0))
    ELSE Outcome(r,
                 [its EXCEPT ![w].notes =
                    IF notes = <<>> THEN NoNotes
                    ELSE SubSeq(notes, 1, IF Len(notes) < NotesLimit
                                          THEN Len(notes) ELSE NotesLimit)],
                 recs,
                 Result("update_notes", w, TRUE, "", {}, {}, 0))

\* A delete_work_item that gives up, leaving the row, when the checkout of
\* main or the deletion of the branch fails
delete_work_item_aborting(r, its, recs, w, f) ==
    IF w \notin DOMAIN its
    THEN Outcome(r, its, recs,
                 Result("delete_work_item", w, FALSE, "Work item not found", {}, {}, 0))
    ELSE
    LET branch_name == its[w].git_branch
        co == checkout_branch(r, Trunk, f = "checkout")
        dh == delete_head(co.repo, branch_name, f = "delete_head")
        fails == (IF co.ok THEN {} ELSE {"checkout_branch"})
                 \cup (IF dh.ok THEN {} ELSE {"delete_head"})
        left == DropKey(its, w)
        kept == SelectSeq(recs, LAMBDA c : c.work_item_id # w)
    IN  IF branch_name = NULL
        THEN Outcome(r, left, kept,
                     Result("delete_work_item", w, TRUE,
                            "Work item deleted successfully", {}, {}, 0))
        ELSE IF fails # {}
        THEN Outcome(dh.repo, its, recs,
                     Result("delete_work_item", w, FALSE, "Delete failed: " \o GitError,
                            {"checkout_branch", "delete_head"}, fails, 0))
        ELSE Outcome(dh.repo, left, kept,
                     Result("delete_work_item", w, TRUE,
                            "Work item deleted successfully",
                            {"checkout_branch", "delete_head"}, fails, 0))

\* WorkModule.delete_work_item: checkout main and delete the head (a failure
\* of either is swallowed), then delete the row; its commits cascade.
delete_work_item(r, its, recs, w, f) ==
    IF w \notin DOMAIN its
    THEN Outcome(r, its, recs,
                 Result("delete_work_item", w, FALSE, "Work item not found", {}, {}, 0))
    ELSE
    LET branch_name == its[w].git_branch
        co == checkout_branch(r, Trunk, f = "checkout")
        dh == delete_head(co.repo, branch_name, f = "delete_head")
        fails == (IF co.ok THEN {} ELSE {"checkout_branch"})
                 \cup (IF dh.ok THEN {} ELSE {"delete_head"})
        left == DropKey(its, w)
        kept == SelectSeq(recs, LAMBDA c : c.work_item_id # w)
    IN  IF branch_name = NULL
        THEN Outcome(r, left, kept,
                     Result("delete_work_item", w, TRUE,
                            "Work item deleted successfully", {}, {}, 0))
        ELSE Outcome(dh.repo, left, kept,
                     Result("delete_work_item", w, TRUE,
                            "Work item deleted successfully",
                            {"checkout_branch", "delete_head"}, fails, 0))

\* WorkModule.get_work_detail
get_work_detail(r, its, recs, w) ==
    IF w \notin DOMAIN its
    THEN Outcome(r, its, recs, Result("get_work_detail", w, FALSE, "", {}, {}, 0))
    ELSE IF its[w].git_branch = NULL
    THEN Outcome(r, its, recs, Result("get_work_detail", w, TRUE, "", {}, {}, 0))
    ELSE Outcome(r,
                 [its EXCEPT ![w].branch_merged = is_branch_merged(r, its[w].git_branch)],
                 recs,
                 Result("get_work_detail", w, TRUE, "", {}, {}, 0))

\* An _update_checklist that keeps only the items it has marked
update_checklist_trimmed(checklist, is_up) ==
    [i \in 1..(IF Len(checklist) < 5 THEN Len(checklist) ELSE 5) |->
        IF i \in 1..4 THEN [checklist[i] EXCEPT !.done = TRUE]
        ELSE [checklist[i] EXCEPT !.done = is_up]]

\* EndpointModule._update_checklist
update_checklist(checklist, is_up) ==
    [i \in 1..Len(checklist) |->
        IF i \in 1..4 THEN [checklist[i] EXCEPT !.done = TRUE]
        ELSE IF i = 5 THEN [checklist[i] EXCEPT !.done = is_up]
        ELSE checklist[i]]

\* EndpointModule._commit_endpoint_creation: append, stage, commit, record.
commit_endpoint_creation(r, recs, w, message, f) ==
    LET r1 == append_to_changes_md(r)
        st == stage(r1, f = "add")
        cm == commit(st.repo, w, f = "commit")
    IN  [ repo |-> cm.repo,
          sha |-> cm.sha,
          fails |-> (IF st.ok THEN {} ELSE {"add"})
                    \cup (IF cm.sha = 0 THEN {"commit"} ELSE {}),
          records |-> IF cm.sha # 0
                      THEN Append(recs, CommitRecord(w, cm.sha, message))
                      ELSE recs ]

\* EndpointModule._update_work_item_notes: the notes open with the
\* endpoint's name under a heading.
EndpointNotes(name) == << "#", " ", "E", "n", "d", "p", "o", "i", "n", "t",
                          ":", " " >> \o name

EndpointTitlePrefix ==
    << "A","d","d"," ","m","o","n","i","t","o","r","i","n","g"," ",
       "e","n","d","p","o","i","n","t",":"," " >>

\* EndpointModule.create_endpoint_with_work_item; is_up is the verdict of
\* the initial health check.
create_endpoint_with_work_item(r, its, recs, id, name, is_up, f) ==
    LET title == EndpointTitlePrefix \o name
        cw == create_work_item(r, its, recs, id, title, "service", "new", f)
        ce == commit_endpoint_creation(cw.repo, recs, id, title, f)
    IN  IF ~cw.ret.ok
        THEN Outcome(r, its, recs,
                     Result("create_endpoint", id, FALSE, "OSError",
                            {"create_branch"}, {"create_branch"}, 0))
        ELSE Outcome(ce.repo,
                     [cw.items EXCEPT ![id].notes = EndpointNotes(name),
                                      ![id].checklist = update_checklist(@, is_up)],
                     ce.records,
                     Result("create_endpoint", id, TRUE, "",
                            {"create_branch", "add", "commit"},
                            cw.ret.fails \cup ce.fails, ce.sha))


\* ------------------------------------------------------------ the inputs
\* create(title, category, action_type): two titles with different slugs;
\* documentation/fix has no template.  Creating twice from one input is two
\* work items of the same day with the same category, action type and slug.
CreateInputs ==
    { << <<"F","i","x"," ","A">>, "documentation", "fix" >>,
      << <<"B","2">>, "documentation", "fix" >> }

\* The categories and action types of a work item
Categories == {"platform_feature", "integration", "service", "documentation"}
ActionTypes == {"new", "change", "fix"}

\* Titles: one with punctuation, one longer than the slug limit
Titles ==
    { <<"F","i","x"," ","A">>,
      <<"B","_","2","!">>,
      <<"R","e","-","i","n","d","e","x"," ","D","o","c","s"," ","&"," ","R","e","b","u","i","l","d"," ","S","e","a","r","c","h"," ","C","a","c","h","e"," ","2">> }

\* create(title, category, action_type) for every category and action type
AllCreateInputs == Titles \X Categories \X ActionTypes

\* Changelog entries (one of two lines, the second looking like a section
\* heading), authors and work type labels handed to append_to_changes_md
Entries == { <<"a">>, <<"b">>, <<"c","\n","#","#"," ","d">> }
Authors == { <<"A","n","n">>, <<"B","o">> }
WorkTypes == { <<"F","i","x">> }

\* The file before the first append: missing, or the header alone
NoFile == [exists |-> FALSE, text |-> <<>>]
StartFiles == { NoFile, [exists |-> TRUE, text |-> HeaderText] }

\* Commit messages and changelog entries
Texts == { <<>>, <<" ">>, <<"m">> }

\* Checklist indexes handed to toggle_checklist_item
MaxIndex == 2
ToggleIndexes == (0 - MaxIndex - 1)..MaxIndex

EndpointNames == { <<"a","p","i">> }

\* Notes handed to update_notes
NoteTexts == { <<>>, <<"n">> }

Ids == 1..MaxItems

NoHistory == [tried |-> FALSE, okCommits |-> 0, merged |-> FALSE]

\* The callers that run commit_work at the same time
Callers == {"A", "B"}

\* A caller that is not in a call.  In a call: pc is the gateway step it
\* is about to take, w the work item, sha what the gateway's commit
\* returned, coOk what checkout_branch returned, and crossed whether
\* another caller's checkout has moved HEAD since this caller's own.
Idle == [pc |-> "idle", w |-> 0, sha |-> 0, coOk |-> TRUE, crossed |-> FALSE]

\* ----------------------------------------------------------- the machine
\* ret is what the last operation that changed the repository or the
\* database returned; an operation that changes neither is a stuttering step.
\* hist keeps, per work item id, whether a commit_work call got past its
\* input checks, how many commit_work calls succeeded, and whether a
\* merge_and_complete call succeeded.  failures counts the operations in
\* which a gateway step was made to fail (a step that fails on its own
\* account, such as the checkout of a branch that does not exist, is not
\* counted).
Init ==
    /\ repo = InitRepo
    /\ items = <<>>
    /\ records = <<>>
    /\ nextId = 1
    /\ clock = 0
    /\ hist = [w \in Ids |-> NoHistory]
    /\ failures = 0
    /\ ret = Result("init", 0, TRUE, "", {}, {}, 0)
    /\ changes_md = [file |-> NoFile, log |-> <<>>]
    /\ inflight = [c \in Callers |-> Idle]

Changed(res) == <<res.repo, res.items, res.records>> # <<repo, items, records>>

\* The step an operation's outcome makes, within the bounds
Step(res) ==
    /\ Len(res.repo.commits) <= MaxCommits + 1
    /\ res.repo.nentry <= MaxEntries
    /\ repo' = res.repo
    /\ items' = res.items
    /\ records' = res.records
    /\ ret' = IF Changed(res) THEN res.ret ELSE ret
    /\ UNCHANGED <<changes_md, inflight>>

\* Making the gateway step f fail changes what the operation does; base is
\* the outcome of the same call left alone.
Injected(f, res, base) == f # "none" => res # base

CreateStep(f) ==
    /\ nextId <= MaxItems
    /\ \E in \in CreateInputs :
         LET res == create_work_item(repo, items, records, nextId,
                                     in[1], in[2], in[3], f)
             base == create_work_item(repo, items, records, nextId,
                                      in[1], in[2], in[3], "none")
         IN  /\ Step(res)
             /\ Injected(f, res, base)
             /\ nextId' = IF res.ret.ok THEN nextId + 1 ELSE nextId
    /\ UNCHANGED <<clock, hist>>

Create ==
    /\ CreateStep("none")
    /\ UNCHANGED failures

\* create_work_item for any category and action type, no gateway step failing
CreateOfAnyType ==
    /\ nextId <= MaxItems
    /\ \E in \in AllCreateInputs :
         LET res == create_work_item(repo, items, records, nextId,
                                     in[1], in[2], in[3], "none")
         IN  /\ Step(res)
             /\ nextId' = IF res.ret.ok THEN nextId + 1 ELSE nextId
    /\ UNCHANGED <<clock, hist, failures>>

CreateFails ==
    /\ failures < MaxFailures
    /\ \E f \in {"create_head", "checkout"} : CreateStep(f)
    /\ failures' = failures + 1

Toggle ==
    /\ \E w \in Ids, index \in ToggleIndexes :
         Step(toggle_checklist_item(repo, items, records, w, index))
    /\ UNCHANGED <<nextId, clock, hist, failures>>

CommitWorkStep(f) ==
    \E w \in Ids, message \in Texts, entry \in Texts :
        LET res == commit_work(repo, items, records, w, message, entry, f)
            base == commit_work(repo, items, records, w, message, entry, "none")
        IN  /\ Step(res)
            /\ Injected(f, res, base)
            /\ hist' = IF res.ret.calls = {} THEN hist
                       ELSE [hist EXCEPT ![w].tried = TRUE,
                                         ![w].okCommits = IF res.ret.ok THEN @ + 1 ELSE @]
            /\ UNCHANGED <<nextId, clock>>

CommitWork ==
    /\ CommitWorkStep("none")
    /\ UNCHANGED failures

CommitWorkFails ==
    /\ failures < MaxFailures
    /\ \E f \in {"checkout", "add", "commit"} : CommitWorkStep(f)
    /\ failures' = failures + 1

MergeStep(f) ==
    \E w \in Ids :
      LET res == merge_and_complete(repo, items, records, w, clock + 1, f)
          base == merge_and_complete(repo, items, records, w, clock + 1, "none")
      IN  /\ Step(res)
          /\ Injected(f, res, base)
          /\ clock' = IF res.ret.ok THEN clock + 1 ELSE clock
          /\ clock' <= MaxClock
          /\ hist' = IF res.ret.ok THEN [hist EXCEPT ![w].merged = TRUE] ELSE hist
          /\ UNCHANGED nextId

MergeAndComplete ==
    /\ MergeStep("none")
    /\ UNCHANGED failures

MergeAndCompleteFails ==
    /\ failures < MaxFailures
    /\ \E f \in {"checkout", "merge"} : MergeStep(f)
    /\ failures' = failures + 1

DeleteStep(f) ==
    /\ \E w \in Ids :
         LET res == delete_work_item(repo, items, records, w, f)
             base == delete_work_item(repo, items, records, w, "none")
         IN  Step(res) /\ Injected(f, res, base)
    /\ UNCHANGED <<nextId, clock, hist>>

Delete ==
    /\ DeleteStep("none")
    /\ UNCHANGED failures

DeleteFails ==
    /\ failures < MaxFailures
    /\ \E f \in {"checkout", "delete_head"} : DeleteStep(f)
    /\ failures' = failures + 1

UpdateNotes ==
    /\ \E w \in Ids, notes \in NoteTexts :
         Step(update_notes(repo, items, records, w, notes))
    /\ UNCHANGED <<nextId, clock, hist, failures>>

GetWorkDetail ==
    /\ \E w \in Ids :
         Step(get_work_detail(repo, items, records, w))
    /\ UNCHANGED <<nextId, clock, hist, failures>>

CreateEndpointStep(f) ==
    /\ nextId <= MaxEndpoints
    /\ \E name \in EndpointNames, is_up \in BOOLEAN :
         LET res == create_endpoint_with_work_item(repo, items, records, nextId,
                                                   name, is_up, f)
             base == create_endpoint_with_work_item(repo, items, records, nextId,
                                                    name, is_up, "none")
         IN  /\ Step(res)
             /\ Injected(f, res, base)
             /\ nextId' = IF res.ret.ok THEN nextId + 1 ELSE nextId
    /\ UNCHANGED <<clock, hist>>

CreateEndpoint ==
    /\ CreateEndpointStep("none")
    /\ UNCHANGED failures

CreateEndpointFails ==
    /\ failures < MaxFailures
    /\ \E f \in {"create_head", "checkout", "add", "commit"} : CreateEndpointStep(f)
    /\ failures' = failures + 1

\* The operations of the core, every gateway step left alone
Next ==
    \/ Create
    \/ Toggle
    \/ CommitWork
    \/ MergeAndComplete
    \/ Delete
    \/ GetWorkDetail

Spec == Init /\ [][Next]_vars

\* No two work items have the same branch name
DistinctBranches(its) ==
    \A a, b \in DOMAIN its : a # b => its[a].git_branch # its[b].git_branch

\* The runs in which no gateway step fails, on its own account either, and
\* every work item is created under a branch name no other work item has
NextNoFail ==
    \/ Create /\ ret'.fails = {} /\ DistinctBranches(items')
    \/ Toggle /\ ret'.fails = {}
    \/ CommitWork /\ ret'.fails = {}
    \/ MergeAndComplete /\ ret'.fails = {}
    \/ Delete /\ ret'.fails = {}
    \/ GetWorkDetail /\ ret'.fails = {}

SpecNoFail == Init /\ [][NextNoFail]_vars

\* The runs in which a gateway step of create may be made to fail
NextCreateFails == Next \/ CreateFails

SpecCreateFails == Init /\ [][NextCreateFails]_vars

\* The runs in which a gateway step of commit_work may be made to fail
NextCommitWorkFails == Next \/ CommitWorkFails

SpecCommitWorkFails == Init /\ [][NextCommitWorkFails]_vars

\* The runs in which a gateway step of merge_and_complete may be made to fail
NextMergeFails == Next \/ MergeAndCompleteFails

SpecMergeFails == Init /\ [][NextMergeFails]_vars

\* The runs in which a gateway step of delete_work_item may be made to fail
NextDeleteFails == Next \/ DeleteFails

SpecDeleteFails == Init /\ [][NextDeleteFails]_vars

\* The creates alone, over every category, action type and title
NextCreate == CreateOfAnyType

SpecCreate == Init /\ [][NextCreate]_vars

\* The changelog writer on its own: appends to a file that starts missing
\* or with the header alone.  log is bookkeeping: the entries appended, in
\* the order of the calls.
InitChangelog ==
    /\ repo = InitRepo
    /\ items = <<>>
    /\ records = <<>>
    /\ nextId = 1
    /\ clock = 0
    /\ hist = [w \in Ids |-> NoHistory]
    /\ failures = 0
    /\ ret = Result("init", 0, TRUE, "", {}, {}, 0)
    /\ \E file \in StartFiles : changes_md = [file |-> file, log |-> <<>>]
    /\ inflight = [c \in Callers |-> Idle]

AppendEntry ==
    /\ Len(changes_md.log) < MaxAppends
    /\ \E entry \in Entries, author \in Authors, work_type \in WorkTypes :
         changes_md' =
            [ file |-> append_lines(changes_md.file, entry, author, work_type),
              log  |-> Append(changes_md.log,
                              [entry |-> entry, author |-> author,
                               work_type |-> work_type]) ]
    /\ UNCHANGED <<repo, items, records, nextId, clock, hist, failures, ret,
                   inflight>>

NextChangelog == AppendEntry

SpecChangelog == InitChangelog /\ [][NextChangelog]_vars

\* -------------------------------------------- commit_work, step by step
\* A commit_work that holds a lock from its checkout to its return: no
\* other caller may be past its own checkout
may_checkout_locked(infl, c) ==
    \A o \in Callers \ {c} : infl[o].pc \in {"idle", "checkout"}

\* commit_work takes no lock before it checks out the work item's branch
may_checkout(infl, c) == TRUE

\* The call comes in: the work item exists, message and entry are not blank
CallerBegin(c) ==
    /\ inflight[c].pc = "idle"
    /\ \E w \in DOMAIN items :
         inflight' = [inflight EXCEPT ![c] = [Idle EXCEPT !.pc = "checkout", !.w = w]]
    /\ UNCHANGED <<repo, items, records, nextId, clock, hist, failures, ret,
                   changes_md>>

\* git_module.checkout_branch(work_item.git_branch), the result ignored
CallerCheckout(c) ==
    /\ inflight[c].pc = "checkout"
    /\ may_checkout(inflight, c)
    /\ LET co == checkout_branch(repo, items[inflight[c].w].git_branch, FALSE)
       IN  /\ repo' = co.repo
           /\ inflight' =
                 [o \in Callers |->
                    IF o = c
                    THEN [inflight[c] EXCEPT !.pc = "append", !.coOk = co.ok]
                    ELSE IF inflight[o].pc \in {"append", "add", "commit"}
                            /\ co.repo.cur # repo.cur
                    THEN [inflight[o] EXCEPT !.crossed = TRUE]
                    ELSE inflight[o]]
    /\ UNCHANGED <<items, records, nextId, clock, hist, failures, ret, changes_md>>

\* documentation_module.append_to_changes_md
CallerAppend(c) ==
    /\ inflight[c].pc = "append"
    /\ repo.nentry < MaxEntries
    /\ repo' = append_to_changes_md(repo)
    /\ inflight' = [inflight EXCEPT ![c].pc = "add"]
    /\ UNCHANGED <<items, records, nextId, clock, hist, failures, ret, changes_md>>

\* git_module.repo.git.add('-A')
CallerAdd(c) ==
    /\ inflight[c].pc = "add"
    /\ repo' = stage(repo, FALSE).repo
    /\ inflight' = [inflight EXCEPT ![c].pc = "commit"]
    /\ UNCHANGED <<items, records, nextId, clock, hist, failures, ret, changes_md>>

\* git_module.commit(commit_message)
CallerCommit(c) ==
    /\ inflight[c].pc = "commit"
    /\ Len(repo.commits) <= MaxCommits
    /\ LET cm == commit(repo, inflight[c].w, FALSE)
       IN  /\ repo' = cm.repo
           /\ inflight' = [inflight EXCEPT ![c].pc = "record", ![c].sha = cm.sha]
    /\ UNCHANGED <<items, records, nextId, clock, hist, failures, ret, changes_md>>

\* The Commit row, db.commit() and the return
CallerRecord(c) ==
    /\ inflight[c].pc = "record"
    /\ LET w == inflight[c].w
       IN  /\ records' = Append(records, CommitRecord(w, inflight[c].sha, <<"m">>))
           /\ ret' = Result("commit_work", w, TRUE, "Changes committed successfully!",
                            {"checkout_branch", "add", "commit"},
                            IF inflight[c].coOk THEN {} ELSE {"checkout_branch"},
                            inflight[c].sha)
           /\ hist' = [hist EXCEPT ![w].tried = TRUE, ![w].okCommits = @ + 1]
    /\ inflight' = [inflight EXCEPT ![c] = Idle]
    /\ UNCHANGED <<repo, items, nextId, clock, failures, changes_md>>

\* Work items are created while no commit_work call is running
CreateWhileIdle ==
    /\ \A c \in Callers : inflight[c].pc = "idle"
    /\ Create
    /\ DistinctBranches(items')

\* Two callers in commit_work, their gateway steps in any order
NextConcurrent ==
    \/ CreateWhileIdle
    \/ \E c \in Callers : CallerBegin(c)
    \/ \E c \in Callers : CallerCheckout(c)
    \/ \E c \in Callers : CallerAppend(c)
    \/ \E c \in Callers : CallerAdd(c)
    \/ \E c \in Callers : CallerCommit(c)
    \/ \E c \in Callers : CallerRecord(c)

SpecConcurrent == Init /\ [][NextConcurrent]_vars

\* The endpoint-creation flow: the work items are the ones it creates.
NextEndpoint ==
    \/ CreateEndpoint
    \/ CreateEndpointFails
    \/ Toggle
    \/ UpdateNotes
    \/ CommitWork
    \/ MergeAndComplete
    \/ Delete
    \/ GetWorkDetail

SpecEndpoint == Init /\ [][NextEndpoint]_vars


\* ================================================================= claims
TrunkCommits == Reach(repo, repo.heads[Trunk])

\* The commits of a work item's branch (none when the branch does not exist)
BranchCommits(w) ==
    IF items[w].git_branch \in DOMAIN repo.heads
    THEN Reach(repo, repo.heads[items[w].git_branch])
    ELSE {}

\* C1: with no gateway failure, every commit made for a work item that is
\* contained in trunk belongs to a work item whose own merge_and_complete
\* has succeeded.
C1_TrunkHoldsOnlyMergedWork ==
    \A c \in TrunkCommits :
        repo.commits[c].owner # 0 => hist[repo.commits[c].owner].merged

\* C2: when a merge_and_complete call has just returned success, every commit
\* of the work item's branch is contained in trunk.
C2_SuccessMeansBranchInTrunk ==
    (ret.op = "merge_and_complete" /\ ret.ok /\ ret.w \in DOMAIN items)
        => BranchCommits(ret.w) \subseteq TrunkCommits

\* The gateway steps merge_and_complete may be made to fail at
MergeFailurePoints == {"none", "checkout", "merge"}

\* C3: whenever the validation of a work item fails, merge_and_complete on
\* it (whatever later gateway step would fail) returns failure with all the
\* validation errors joined by " | ", invokes no gateway merge or checkout,
\* and leaves the repository, the work items and the commit records as
\* they are.
C3_FailedValidationChangesNothing ==
    \A w \in DOMAIN items, f \in MergeFailurePoints :
        LET v == validate_for_completion(items[w], repo)
            res == merge_and_complete(repo, items, records, w, clock + 1, f)
        IN  ~v.ok =>
               /\ ~res.ret.ok
               /\ res.ret.msg = JoinWith(" | ", v.errors)
               /\ res.ret.calls = {}
               /\ res.repo = repo
               /\ res.items = items
               /\ res.records = records

\* A work item with commits on its branch whose validation fails with two
\* errors, on which merge_and_complete answers with both of them.
C3_Witness ==
    \E w \in DOMAIN items :
        LET v == validate_for_completion(items[w], repo)
            res == merge_and_complete(repo, items, records, w, clock + 1, "none")
        IN  /\ hist[w].okCommits > 0
            /\ Len(v.errors) = 2
            /\ ~res.ret.ok
            /\ res.ret.msg = v.errors[1] \o " | " \o v.errors[2]

\* C4: a work item with status complete and an assigned branch has a
\* completed timestamp and branch_merged = TRUE.
C4_CompleteIsMergedAndDated ==
    \A w \in DOMAIN items :
        (items[w].status = "complete" /\ items[w].git_branch # NULL)
            => (items[w].completed_date # 0 /\ items[w].branch_merged)

\* C5: the commit that commit_work or the endpoint-creation flow has just
\* recorded is a commit of the owning work item's branch.
C5_RecordedCommitOnOwnBranch ==
    ( /\ ret.op \in {"commit_work", "create_endpoint"}
      /\ ret.sha # 0
      /\ ret.w \in DOMAIN items )
        => ret.sha \in BranchCommits(ret.w)

\* The gateway steps commit_work may be made to fail at
CommitFailurePoints == {"none", "checkout", "add", "commit"}

\* The commit records of a work item
RecordsOf(w) == { i \in DOMAIN records : records[i].work_item_id = w }

C7_AlreadyMergedShortcut ==
    \A w \in DOMAIN items :
        LET res == merge_and_complete(repo, items, records, w, clock + 1, "none")
        IN  ( /\ incomplete_items(items[w].checklist) = {}
              /\ items[w].git_branch \in DOMAIN repo.heads
              /\ is_branch_merged(repo, items[w].git_branch) )
            => ( /\ res.ret.ok
                 /\ res.items[w].status = "complete"
                 /\ res.items[w].branch_merged
                 /\ res.ret.calls = {} )

\* C8: the result of validate_for_completion for a work item is the same
\* whichever branch is checked out.
C8_ValidationIgnoresCheckedOutBranch ==
    \A w \in DOMAIN items, b \in DOMAIN repo.heads :
        validate_for_completion(items[w], checkout_branch(repo, b, FALSE).repo)
            = validate_for_completion(items[w], repo)

\* The checks of validate_for_completion that fail for a work item, as the
\* gateway answers them.
FailedChecks(work_item, r) ==
    (IF \E i \in DOMAIN work_item.checklist : ~work_item.checklist[i].done
     THEN {"checklist"} ELSE {})
    \cup (IF work_item.git_branch = NULL THEN {"branch"} ELSE {})
    \cup (IF work_item.git_branch # NULL
             /\ get_branch_commits(r, work_item.git_branch) = {}
          THEN {"commits"} ELSE {})
    \cup (IF work_item.git_branch # NULL /\ ~check_changes_md_updated(r)
          THEN {"changelog"} ELSE {})

\* C9: validate_for_completion reports exactly one error for each check
\* that fails, all of them distinct, and ok exactly when there is none.
C9_OneErrorPerFailedCheck ==
    \A w \in DOMAIN items :
        LET v == validate_for_completion(items[w], repo)
        IN  /\ Len(v.errors) = Cardinality(FailedChecks(items[w], repo))
            /\ Cardinality(SeqToSet(v.errors)) = Len(v.errors)
            /\ "checklist" \in FailedChecks(items[w], repo)
                 => v.errors[1] =
                      ToString(Cardinality({ i \in DOMAIN items[w].checklist :
                                               ~items[w].checklist[i].done }))
                      \o " checklist item(s) not completed"
            /\ v.ok <=> (v.errors = <<>>)

\* A work item for which two checks fail at once, beside one for which
\* none does.
C9_Witness ==
    /\ \E w \in DOMAIN items :
          Len(validate_for_completion(items[w], repo).errors) = 2
    /\ \E w \in DOMAIN items : validate_for_completion(items[w], repo).ok

\* C10: validate_for_completion on the work item that create has just
\* returned answers ok = FALSE with at least two distinct errors.
C10_FreshItemHasTwoErrors ==
    (ret.op = "create_work_item" /\ ret.w \in DOMAIN items)
        => LET v == validate_for_completion(items[ret.w], repo)
           IN  ~v.ok /\ Cardinality(SeqToSet(v.errors)) >= 2

\* C11: when commit_work has just returned success on a work item whose
\* branch exists and whose checklist items are all done,
\* validate_for_completion on it answers ok with no error.
C11_CommittedAndCheckedValidates ==
    ( /\ ret.op = "commit_work" /\ ret.ok
      /\ ret.w \in DOMAIN items
      /\ items[ret.w].git_branch \in DOMAIN repo.heads
      /\ incomplete_items(items[ret.w].checklist) = {} )
        => validate_for_completion(items[ret.w], repo)
             = [ok |-> TRUE, errors |-> <<>>]

\* C12: whenever the validation of a work item passes, its branch is not
\* merged yet and the gateway's git merge fails, merge_and_complete returns
\* failure with a message that ends in the gateway's error text, and leaves
\* every work item row (status, branch_merged, merge_commit_sha and
\* completed_date among its fields) and the commit records as they are.
C12_MergeFailureLeavesItem ==
    \A w \in DOMAIN items, f \in MergeFailurePoints :
        LET v == validate_for_completion(items[w], repo)
            co == checkout_branch(repo, Trunk, f = "checkout")
            mg == GitMerge(co.repo, items[w].git_branch, f = "merge")
            res == merge_and_complete(repo, items, records, w, clock + 1, f)
        IN  (v.ok /\ ~is_branch_merged(repo, items[w].git_branch) /\ ~mg.ok) =>
               /\ ~res.ret.ok
               /\ res.ret.msg = "Merge failed: " \o GitError
               /\ res.items[w].status = items[w].status
               /\ res.items[w].branch_merged = items[w].branch_merged
               /\ res.items[w].merge_commit_sha = items[w].merge_commit_sha
               /\ res.items[w].completed_date = items[w].completed_date
               /\ res.items = items
               /\ res.records = records

\* merge_and_complete has just failed in the gateway's merge, on a work item
\* that passed validation, and the work item is still not complete.
C12_Witness ==
    /\ ret.op = "merge_and_complete" /\ ~ret.ok
    /\ "merge_branch" \in ret.fails
    /\ ret.msg = "Merge failed: GitCommandError"
    /\ ret.w \in DOMAIN items
    /\ items[ret.w].status = "planning"
    /\ ~items[ret.w].branch_merged
    /\ hist[ret.w].okCommits > 0

\* C13: when merge_and_complete has just failed in the gateway's merge, the
\* same call made again at once, with every gateway step now succeeding,
\* returns success and leaves the work item complete with branch_merged set.
C13_RetryAfterMergeFailureCompletes ==
    ( /\ ret.op = "merge_and_complete" /\ ~ret.ok
      /\ "merge_branch" \in ret.fails
      /\ ret.w \in DOMAIN items )
        => LET res == merge_and_complete(repo, items, records, ret.w,
                                         clock + 1, "none")
           IN  /\ res.ret.ok
               /\ res.items[ret.w].status = "complete"
               /\ res.items[ret.w].branch_merged

\* C14: in every reachable state no two work items have the same branch
\* name, and no step changes the branch name of a work item that exists
\* before and after it.  Two creates from one input are two creates of the
\* same day with the same category, action type and title slug.
C14_BranchNamesUniqueAndFixed ==
    /\ [] DistinctBranches(items)
    /\ [][ \A w \in DOMAIN items \cap DOMAIN items' :
              items'[w].git_branch = items[w].git_branch ]_vars

\* A text with nothing in it but whitespace
Blank(text) == \A i \in DOMAIN text : text[i] \in Whitespace

\* C15: commit_work with a commit message or a changelog entry that holds
\* nothing but whitespace returns failure, whatever gateway step would fail,
\* and leaves the repository (the branch checked out, the changelog, the
\* commits), the commit records and the work items as they are.
C15_BlankInputChangesNothing ==
    \A w \in Ids, message \in Texts, entry \in Texts, f \in CommitFailurePoints :
        LET res == commit_work(repo, items, records, w, message, entry, f)
        IN  (Blank(message) \/ Blank(entry)) =>
               /\ ~res.ret.ok
               /\ res.ret.calls = {}
               /\ res.repo = repo
               /\ res.records = records
               /\ res.items = items

\* A work item with a recorded commit whose branch is not the one checked
\* out, on which commit_work turns down a blank message and a blank entry.
C15_Witness ==
    \E w \in DOMAIN items :
        /\ hist[w].okCommits > 0
        /\ items[w].git_branch \in DOMAIN repo.heads
        /\ repo.cur # items[w].git_branch
        /\ commit_work(repo, items, records, w, <<" ">>, <<"m">>, "none").ret.msg
             = "Commit message is required"
        /\ commit_work(repo, items, records, w, <<"m">>, <<>>, "none").ret.msg
             = "CHANGES.md entry is required"

\* C16: toggle_checklist_item returns False and changes nothing whenever the
\* work item does not exist or the index is not one of 0 .. length-1 of its
\* checklist, negative indexes included.
C16_BadIndexChangesNothing ==
    \A w \in Ids, index \in ToggleIndexes :
        LET res == toggle_checklist_item(repo, items, records, w, index)
        IN  (w \notin DOMAIN items
               \/ index \notin 0..(Len(items[w].checklist) - 1)) =>
               /\ ~res.ret.ok
               /\ res.items = items
               /\ res.repo = repo
               /\ res.records = records

\* C17: a toggle_checklist_item(w, index) that returns True flips the done
\* flag of one checklist item of w (the one at index, for an index from 0
\* up) and nothing else: the other items of the checklist, the other fields
\* of w, the rows of the other work items, the repository and the commit
\* records stay as they are.  A work item that create has just returned has
\* nothing done, whatever was toggled in work items of the same template.
C17_ToggleFlipsOneFlag ==
    /\ \A w \in Ids, index \in ToggleIndexes :
          LET res == toggle_checklist_item(repo, items, records, w, index)
              old == items[w].checklist
              new == res.items[w].checklist
              flipped == { j \in DOMAIN old : new[j].done # old[j].done }
          IN  res.ret.ok =>
                 /\ DOMAIN res.items = DOMAIN items
                 /\ \A v \in DOMAIN items : v # w => res.items[v] = items[v]
                 /\ [res.items[w] EXCEPT !.checklist = old] = items[w]
                 /\ Len(new) = Len(old)
                 /\ \A j \in DOMAIN old : new[j].item = old[j].item
                 /\ Cardinality(flipped) = 1
                 /\ index >= 0 => flipped = {index + 1}
                 /\ res.repo = repo
                 /\ res.records = records
    /\ (ret.op = "create_work_item" /\ ret.w \in DOMAIN items)
          => incomplete_items(items[ret.w].checklist)
               = DOMAIN items[ret.w].checklist

\* A toggle has just succeeded on one of two work items made from the same
\* template, and their checklists differ.
C17_Witness ==
    /\ ret.op = "toggle_checklist_item" /\ ret.ok
    /\ \E w, v \in DOMAIN items :
          /\ w = ret.w /\ v # w
          /\ items[v].category = items[w].category
          /\ items[v].action_type = items[w].action_type
          /\ items[v].checklist # items[w].checklist

\* The descriptions of a checklist, in order
Descriptions(checklist) == [j \in DOMAIN checklist |-> checklist[j].item]

\* C18: the descriptions of every work item's checklist are, in number and
\* in order, the ones its template gave it at create, and no step changes
\* them in a work item that exists before and after the step; only done
\* flags change.
C18_ChecklistShapeIsFixed ==
    /\ [] \A w \in DOMAIN items :
             Descriptions(items[w].checklist)
               = Descriptions(generate_checklist(items[w].category,
                                                 items[w].action_type))
    /\ [][ \A w \in DOMAIN items \cap DOMAIN items' :
              Descriptions(items'[w].checklist) = Descriptions(items[w].checklist)
         ]_vars

\* A work item made by the endpoint flow that has since been toggled to a
\* finished checklist, given new notes, committed to and completed.
C18_Witness ==
    \E w \in DOMAIN items :
        /\ Len(items[w].checklist) = 8
        /\ incomplete_items(items[w].checklist) = {}
        /\ items[w].notes = <<"n">>
        /\ hist[w].okCommits > 0
        /\ items[w].status = "complete"

\* The gateway steps delete_work_item may be made to fail at
DeleteFailurePoints == {"none", "checkout", "delete_head"}

\* C19: delete_work_item on an existing work item returns success, removes
\* its row and every commit record of it, and leaves the other rows, the
\* other records and the commits of the repository as they are, whether or
\* not the checkout of main or the deletion of the branch fails.
C19_DeleteSucceedsDespiteVcsFailure ==
    \A w \in DOMAIN items, f \in DeleteFailurePoints :
        LET res == delete_work_item(repo, items, records, w, f)
        IN  /\ res.ret.ok
            /\ res.ret.msg = "Work item deleted successfully"
            /\ DOMAIN res.items = DOMAIN items \ {w}
            /\ \A v \in DOMAIN res.items : res.items[v] = items[v]
            /\ \A i \in DOMAIN res.records : res.records[i].work_item_id # w
            /\ res.records = SelectSeq(records, LAMBDA c : c.work_item_id # w)
            /\ res.repo.commits = repo.commits

\* delete_work_item has just returned success on a work item with a recorded
\* commit although the deletion of its branch failed: the row and the
\* records are gone, the commit is still in the repository.
C19_Witness ==
    /\ ret.op = "delete_work_item" /\ ret.ok
    /\ "delete_head" \in ret.fails
    /\ ret.w \notin DOMAIN items
    /\ hist[ret.w].okCommits > 0
    /\ RecordsOf(ret.w) = {}
    /\ \E c \in DOMAIN repo.commits : repo.commits[c].owner = ret.w

\* C20: after a delete_work_item on a work item with a branch in which
\* neither the checkout of main nor the deletion of the branch fails, the
\* branch is no longer a head of the repository and main is checked out,
\* whichever branch was checked out before.
C20_DeleteRemovesBranchOnTrunk ==
    \A w \in DOMAIN items :
        LET res == delete_work_item(repo, items, records, w, "none")
        IN  (items[w].git_branch # NULL /\ res.ret.fails = {}) =>
               /\ items[w].git_branch \notin DOMAIN res.repo.heads
               /\ res.repo.cur = Trunk
               /\ DOMAIN res.repo.heads = DOMAIN repo.heads \ {items[w].git_branch}

\* delete_work_item has just gone through, both gateway steps included, for
\* one of two work items: main is checked out, and the heads are main and
\* the branch of the work item that is left.
C20_Witness ==
    /\ ret.op = "delete_work_item" /\ ret.ok
    /\ ret.calls = {"checkout_branch", "delete_head"} /\ ret.fails = {}
    /\ ret.w \notin DOMAIN items
    /\ repo.cur = Trunk
    /\ \E v \in DOMAIN items :
          DOMAIN repo.heads = {Trunk, items[v].git_branch}
    /\ Cardinality(DOMAIN repo.heads) = 2

\* The gateway steps create_work_item may be made to fail at
CreateFailurePoints == {"none", "create_head", "checkout"}

\* C21: create_work_item always writes a new row with status planning and
\* the generated branch name, whether or not the gateway creates and checks
\* out the branch, and leaves the rows that were there as they are.
C21_CreateAlwaysWritesRow ==
    \A in \in CreateInputs, f \in CreateFailurePoints :
        LET res == create_work_item(repo, items, records, nextId,
                                    in[1], in[2], in[3], f)
        IN  /\ res.ret.ok
            /\ DOMAIN res.items = DOMAIN items \cup {nextId}
            /\ res.items[nextId].status = "planning"
            /\ res.items[nextId].git_branch
                 = generate_branch_name(in[2], in[3], in[1])
            /\ \A v \in DOMAIN items : res.items[v] = items[v]

RECURSIVE Slug(_)
\* The slug of a title, character by character: lower case, a space turned
\* into '-', anything but an alphanumeric or '-' dropped
Slug(title) ==
    IF title = <<>> THEN <<>>
    ELSE LET c == IF Head(title) = " " THEN "-" ELSE lower(Head(title))
         IN  (IF isalnum(c) \/ c = "-" THEN <<c>> ELSE <<>>) \o Slug(Tail(title))

\* The first n elements of a sequence (all of it when it is shorter)
Prefix(s, n) == [i \in 1..(IF Len(s) < n THEN Len(s) ELSE n) |-> s[i]]

\* C22: a work item that create has made has a non-empty checklist with
\* nothing done, the descriptions being the template of its category and
\* action type (eight for service/new) or the two generic ones when there is
\* no template, and a branch name category/action_type/slug-date with the
\* slug cut to 30 characters.
C22_CreateYieldsTemplateAndBranchName ==
    \A w \in DOMAIN items :
        LET it == items[w]
            expected == IF <<it.category, it.action_type>> \in TemplateKeys
                        THEN Template(it.category, it.action_type)
                        ELSE << "Complete the work", "Document changes" >>
        IN  /\ Len(it.checklist) > 0
            /\ \A j \in DOMAIN it.checklist : ~it.checklist[j].done
            /\ Descriptions(it.checklist) = expected
            /\ (it.category = "service" /\ it.action_type = "new")
                 => Len(it.checklist) = 8
            /\ (it.category = "documentation" /\ it.action_type = "fix")
                 => Len(it.checklist) = 2
            /\ it.git_branch
                 = it.category \o "/" \o it.action_type \o "/"
                     \o JoinWith("", Prefix(Slug(it.title), 30)) \o "-" \o Today
            /\ it.status = "planning"

\* A service/new work item beside a documentation/fix one whose title is
\* longer than the slug limit and has a character the slug drops.
C22_Witness ==
    \E w, v \in DOMAIN items :
        /\ items[w].category = "service" /\ items[w].action_type = "new"
        /\ Len(items[w].checklist) = 8
        /\ items[v].category = "documentation" /\ items[v].action_type = "fix"
        /\ Len(items[v].title) > 30
        /\ items[v].git_branch
             = "documentation/fix/re-index-docs--rebuild-search--20251123"

\* The lines of a text that are not blank
NonBlankLines(text) == SelectSeq(readlines(text), LAMBDA l : l # <<"\n">>)

RECURSIVE NewestFirst(_)
\* The entries of a log as they are written, the last appended first
NewestFirst(log) ==
    IF log = <<>> THEN <<>>
    ELSE LET e == log[Len(log)]
         IN  <<"#","#"," ">> \o TodayDashed \o <<" ","-"," ">> \o e.author
               \o <<" ","-"," ">> \o e.work_type \o <<"\n">>
               \o <<"-"," ">> \o e.entry \o <<"\n">>
               \o NewestFirst(SubSeq(log, 1, Len(log) - 1))

\* C23: after any number of appends to a file that started missing or with
\* the header alone, the file is, blank lines aside, the two header lines
\* once at the top followed by the appended entries, the last appended
\* first, each of them once and whole.
C23_ChangelogNewestFirst ==
    changes_md.log # <<>> =>
        /\ changes_md.file.exists
        /\ NonBlankLines(changes_md.file.text)
             = SubSeq(NonBlankLines(HeaderText), 1, 2)
                 \o NonBlankLines(NewestFirst(changes_md.log))
        /\ Len(NonBlankLines(HeaderText)) = 2

\* Three different entries have been appended, the two-line one first.
C23_Witness ==
    /\ Len(changes_md.log) = 3
    /\ changes_md.log[1].entry = <<"c","\n","#","#"," ","d">>
    /\ changes_md.log[2].entry = <<"a">>
    /\ changes_md.log[3].entry = <<"b">>
    /\ Len(NonBlankLines(changes_md.file.text)) = 9

\* C24: a work item starts at planning, its status only ever changes from
\* planning to in_progress and from in_progress to complete (so it never
\* leaves complete), and it is never cancelled.
C24_StatusLifecycle ==
    /\ [] \A w \in DOMAIN items :
             items[w].status \in {"planning", "in_progress", "complete"}
    /\ [][ \A w \in DOMAIN items' \ DOMAIN items :
              items'[w].status = "planning" ]_vars
    /\ [][ \A w \in DOMAIN items \cap DOMAIN items' :
              items'[w].status # items[w].status
                => <<items[w].status, items'[w].status>>
                     \in { <<"planning", "in_progress">>,
                           <<"in_progress", "complete">> } ]_vars

\* C25: toggle_checklist_item applied twice to the same existing work item
\* with the same index of its checklist succeeds both times, changes the
\* checklist the first time and brings every row back to what it was the
\* second time, whatever the done flags were.
C25_ToggleTwiceRestores ==
    \A w \in DOMAIN items, index \in ToggleIndexes :
        LET once == toggle_checklist_item(repo, items, records, w, index)
            twice == toggle_checklist_item(once.repo, once.items, once.records,
                                           w, index)
        IN  index \in 0..(Len(items[w].checklist) - 1) =>
               /\ once.ret.ok /\ twice.ret.ok
               /\ once.items[w].checklist # items[w].checklist
               /\ twice.items = items
               /\ twice.repo = repo
               /\ twice.records = records

\* A toggle has just succeeded on a work item that now has one item done
\* and one not done; toggling either of them twice gives this checklist back.
C25_Witness ==
    /\ ret.op = "toggle_checklist_item" /\ ret.ok /\ ret.w \in DOMAIN items
    /\ \E i, j \in DOMAIN items[ret.w].checklist :
          items[ret.w].checklist[i].done /\ ~items[ret.w].checklist[j].done
    /\ \A index \in 0..1 :
          LET once == toggle_checklist_item(repo, items, records, ret.w, index)
          IN  toggle_checklist_item(once.repo, once.items, once.records,
                                    ret.w, index).items = items

\* C26: commit_work holds no lock: a caller about to check out its branch
\* may do so while another caller is between its own checkout and its
\* commit.  A commit made for a caller whose checkout went through and
\* was not crossed by another caller's checkout is on the work item's
\* branch; a crossed one need not be (the witness).
C26_NoLockAroundCheckout ==
    /\ \A c \in Callers :
          ( /\ inflight[c].pc = "checkout"
            /\ \E o \in Callers \ {c} : inflight[o].pc \in {"append", "add", "commit"} )
              => may_checkout(inflight, c)
    /\ \A c \in Callers :
          ( /\ inflight[c].pc = "record"
            /\ inflight[c].coOk
            /\ ~inflight[c].crossed )
              => inflight[c].sha \in BranchCommits(inflight[c].w)

\* commit_work has just returned success for a caller whose checkout went
\* through, and the commit it recorded is not on the work item's branch.
C26_Witness ==
    /\ ret.op = "commit_work" /\ ret.ok /\ ret.fails = {}
    /\ ret.w \in DOMAIN items
    /\ items[ret.w].git_branch \in DOMAIN repo.heads
    /\ ret.sha \notin BranchCommits(ret.w)
    /\ \E i \in DOMAIN records :
          /\ records[i].work_item_id = ret.w
          /\ records[i].commit_sha = ret.sha

\* C27: a work item on which no commit_work has ever succeeded never has
\* branch_merged = TRUE, whatever operations have run.
C27_MergedImpliesOwnCommit ==
    \A w \in DOMAIN items :
        items[w].branch_merged => hist[w].okCommits > 0

\* C28: a work item is completed at most once: once its status is
\* complete, no commit_work, toggle_checklist_item or merge_and_complete
\* changes its completed_date or its merge_commit_sha.
C28_CompletedOnce ==
    [][\A w \in DOMAIN items :
          ( /\ w \in DOMAIN items'
            /\ items[w].status = "complete"
            /\ ret'.op \in {"commit_work", "toggle_checklist_item", "merge_and_complete"} )
              => /\ items'[w].completed_date = items[w].completed_date
                 /\ items'[w].merge_commit_sha = items[w].merge_commit_sha]_vars

\* C29: a work item whose status is complete has every checklist item done.
C29_CompleteImpliesAllDone ==
    \A w \in DOMAIN items :
        items[w].status = "complete"
          => \A k \in DOMAIN items[w].checklist : items[w].checklist[k].done

\* C30: delete_work_item on one work item leaves every other work item
\* untouched: the other rows and their Commit records are unchanged, and
\* each of their branches still exists with the same head commit.
C30_DeleteLeavesOthersUntouched ==
    \A w \in DOMAIN items :
        LET res == delete_work_item(repo, items, records, w, "none")
        IN  \A v \in DOMAIN items \ {w} :
               /\ v \in DOMAIN res.items
               /\ res.items[v] = items[v]
               /\ SelectSeq(res.records, LAMBDA c : c.work_item_id = v)
                    = SelectSeq(records, LAMBDA c : c.work_item_id = v)
               /\ items[v].git_branch \in DOMAIN repo.heads
                    => /\ items[v].git_branch \in DOMAIN res.repo.heads
                       /\ res.repo.heads[items[v].git_branch]
                            = repo.heads[items[v].git_branch]

====
